---- MODULE Spec2Model ----
(***************************************************************************)
(* img-to-excel (src/main.py): an image is rendered into a worksheet, each *)
(* pixel as three adjacent cells filled with one isolated colour channel.  *)
(*                                                                         *)
(* Spec      main(): load, render loop, save, with the library failures.   *)
(* UnitSpec  rgb_to_hex and get_subpixel_indices applied to drawn inputs.  *)
(* PermSpec  the render loop's pixels taken in an arbitrary order.         *)
(***************************************************************************)
EXTENDS Integers, Sequences, FiniteSets, TLC

\* ---------------------------------------------------------------- bounds
MaxWidth == 2
MaxHeight == 2
MaxColNum == 6
\* PermSpec: the largest number of pixels of an image rendered in any order.
MaxPermPixels == 6

\* Pixels an RGB image of the model is made of (8-bit channels).
Palette == { <<255, 128, 0>>, <<18, 52, 171>> }

\* Channel values the pure functions are applied to.
ChannelSamples == {0, 1, 9, 10, 15, 16, 128, 255}

\* ------------------------------------------------------ string formatting
HexDigits == <<"0", "1", "2", "3", "4", "5", "6", "7",
               "8", "9", "A", "B", "C", "D", "E", "F">>

RECURSIVE ToHex(_)
\* The "X" presentation type: upper-case base-16 digits, no padding.
ToHex(v) ==
    IF v < 16 THEN <<HexDigits[v + 1]>>
    ELSE ToHex(v \div 16) \o <<HexDigits[(v % 16) + 1]>>

RECURSIVE ZeroPad(_, _)
\* The "0w" part of a format spec: zero-fill on the left to a minimum width.
ZeroPad(s, w) == IF Len(s) >= w THEN s ELSE ZeroPad(<<"0">> \o s, w)

\* A format spec without the zero fill, "{v:X}".
FormatX(v) == ToHex(v)

\* "{v:02X}"
Format02X(v) == ZeroPad(ToHex(v), 2)

\* ------------------------------------------------------------ rgb_to_hex
rgb_to_hex(rgb) ==
    LET red   == Format02X(rgb[1]) \o <<"0", "0", "0", "0">>
        green == <<"0", "0">> \o Format02X(rgb[2]) \o <<"0", "0">>
        blue  == <<"0", "0", "0", "0">> \o Format02X(rgb[3])
    IN  <<red, green, blue>>

\* -------------------------------------------------- get_subpixel_indices
\* The offset computed with a factor of 1: neighbouring pixels overlap.
get_subpixel_indices_overlap(col_num) ==
    LET offset      == (col_num - 1) * 1
        red_index   == col_num + offset
        green_index == col_num + offset + 1
        blue_index  == col_num + offset + 2
    IN  <<red_index, blue_index, green_index>>

\* The indices returned in the order the local names suggest.
get_subpixel_indices_rgb(col_num) ==
    LET offset      == (col_num - 1) * 2
        red_index   == col_num + offset
        green_index == col_num + offset + 1
        blue_index  == col_num + offset + 2
    IN  <<red_index, green_index, blue_index>>

get_subpixel_indices(col_num) ==
    LET offset      == (col_num - 1) * 2
        red_index   == col_num + offset
        green_index == col_num + offset + 1
        blue_index  == col_num + offset + 2
    IN  <<red_index, blue_index, green_index>>

\* ------------------------------------------------------------ worksheet
\* A worksheet is the function from the cells that exist, <<row, column>>,
\* to their fill.
EmptySheet == [c \in {} |-> {}]

PatternFill(start_color, end_color, fill_type) ==
    [start_color |-> start_color, end_color |-> end_color, fill_type |-> fill_type]

\* pixel_row(column=subpixel_index).fill = PatternFill(colour, colour, "solid")
fill_subpixel(sheet, row_num, subpixel_index, colour) ==
    [c \in (DOMAIN sheet) \cup {<<row_num, subpixel_index>>} |->
        IF c = <<row_num, subpixel_index>>
        THEN PatternFill(colour, colour, "solid")
        ELSE sheet[c]]

Min(a, b) == IF a <= b THEN a ELSE b

\* zip(a, b): pairs up to the shorter of the two
Zip(a, b) == [i \in 1..Min(Len(a), Len(b)) |-> <<a[i], b[i]>>]

RECURSIVE FillEach(_, _, _, _)
\* The for loop of fill_pixel over the zipped pairs `order` names, in turn.
FillEach(sheet, row_num, pairs, order) ==
    IF order = <<>> THEN sheet
    ELSE FillEach(fill_subpixel(sheet, row_num,
                                pairs[Head(order)][1], pairs[Head(order)][2]),
                  row_num, pairs, Tail(order))

fill_pixel(sheet, row_num, subpixel_indices, subpixel_colours) ==
    LET pairs == Zip(subpixel_indices, subpixel_colours)
    IN  FillEach(sheet, row_num, pairs, [i \in 1..Len(pairs) |-> i])

\* fill_pixel with its loop visiting the zipped pairs in the order `order`.
fill_pixel_ordered(sheet, row_num, subpixel_indices, subpixel_colours, order) ==
    FillEach(sheet, row_num, Zip(subpixel_indices, subpixel_colours), order)

\* ---------------------------------------------------------------- state
VARIABLES
    pc,            \* position in main, or "Idle" / "Done" / "Failed"
    exc,           \* the exception that left main, "none" if none
    sheet_format,  \* ws.sheet_format
    format_sets,   \* number of assignments to ws.sheet_format
    im,            \* the handle of Image.open: "none", "open", "closed"
    width, height, \* im.size
    rgb_im,        \* the converted image: <<x, y>> -> (R, G, B)
    max_value,     \* ProgressBar(max_value=...)
    col_num, row_num,
    ws,            \* the worksheet's filled cells
    writes,        \* number of fills set (fill_subpixel calls)
    rendered,      \* number of fill_pixel calls completed
    reported,      \* the values passed to progress_bar.update, in order
    saves,         \* number of calls of wb.save
    todo,          \* PermSpec: the pixels not yet rendered
    args, ret      \* UnitSpec: the inputs drawn and the results returned

vars == <<pc, exc, sheet_format, format_sets, im, width, height, rgb_im,
          max_value, col_num, row_num, ws, writes, rendered, reported, saves,
          todo, args, ret>>

imageVars == <<width, height, rgb_im>>
loopVars == <<max_value, col_num, row_num>>
sheetVars == <<ws, writes, rendered>>
unitVars == <<args, ret>>

NoImage == [p \in {} |-> <<>>]
NoArgs == [rgb |-> <<>>, col_num |-> 0]
NoRet == [hex |-> <<>>, idx |-> <<>>]

SheetFormatProperties(w, h) == [defaultColWidth |-> w, defaultRowHeight |-> h]

\* The RGB images of a given size.
Images(w, h) == [(0..(w - 1)) \X (0..(h - 1)) -> Palette]

Init ==
    /\ pc = "Idle"
    /\ exc = "none"
    /\ sheet_format = SheetFormatProperties("None", "15")
    /\ format_sets = 0
    /\ im = "none"
    /\ width = 0
    /\ height = 0
    /\ rgb_im = NoImage
    /\ max_value = 0
    /\ col_num = 0
    /\ row_num = 0
    /\ ws = EmptySheet
    /\ writes = 0
    /\ rendered = 0
    /\ reported = <<>>
    /\ saves = 0
    /\ todo = {}
    /\ args = NoArgs
    /\ ret = NoRet

\* ----------------------------------------------------------------- main

\* wb = Workbook(); ws = wb.active; ws.sheet_format = ...
Start ==
    /\ pc = "Idle"
    /\ sheet_format' = SheetFormatProperties("0.1", "2.5")
    /\ format_sets' = format_sets + 1
    /\ ws' = EmptySheet
    /\ pc' = "Open"
    /\ UNCHANGED <<exc, im, imageVars, loopVars, writes, rendered, reported,
                   saves, todo, unitVars>>

\* Image.open(input_filepath) returns a handle.
OpenOk ==
    /\ pc = "Open"
    /\ im' = "open"
    /\ pc' = "Convert"
    /\ UNCHANGED <<exc, sheet_format, format_sets, imageVars, loopVars,
                   sheetVars, reported, saves, todo, unitVars>>

\* Image.open raises and the error is swallowed: main goes on to save.
OpenFail_swallow ==
    /\ pc = "Open"
    /\ exc' = "LoadError"
    /\ pc' = "Save"
    /\ UNCHANGED <<sheet_format, format_sets, im, imageVars, loopVars,
                   sheetVars, reported, saves, todo, unitVars>>

\* Image.open raises: no handle, the exception leaves main.
OpenFail ==
    /\ pc = "Open"
    /\ exc' = "LoadError"
    /\ pc' = "Failed"
    /\ UNCHANGED <<sheet_format, format_sets, im, imageVars, loopVars,
                   sheetVars, reported, saves, todo, unitVars>>

\* width, height = im.size; rgb_im = im.convert("RGB")
ConvertOk ==
    /\ pc = "Convert"
    /\ \E w \in 1..MaxWidth, h \in 1..MaxHeight :
         /\ width' = w
         /\ height' = h
         /\ rgb_im' \in Images(w, h)
    /\ pc' = "Exit"
    /\ UNCHANGED <<exc, sheet_format, format_sets, im, loopVars, sheetVars,
                   reported, saves, todo, unitVars>>

\* The body of the with statement raises and the handle is left open.
ConvertFail_leak ==
    /\ pc = "Convert"
    /\ exc' = "LoadError"
    /\ pc' = "Failed"
    /\ UNCHANGED <<sheet_format, format_sets, im, imageVars, loopVars,
                   sheetVars, reported, saves, todo, unitVars>>

\* The body of the with statement raises: __exit__ closes the handle and the
\* exception leaves main.
ConvertFail ==
    /\ pc = "Convert"
    /\ im' = "closed"
    /\ exc' = "LoadError"
    /\ pc' = "Failed"
    /\ UNCHANGED <<sheet_format, format_sets, imageVars, loopVars, sheetVars,
                   reported, saves, todo, unitVars>>

\* The with statement ends: __exit__ closes the handle.
ExitWith ==
    /\ pc = "Exit"
    /\ im' = "closed"
    /\ pc' = "Bar"
    /\ UNCHANGED <<exc, sheet_format, format_sets, imageVars, loopVars,
                   sheetVars, reported, saves, todo, unitVars>>

\* with ProgressBar(max_value=width * height); the loops start at 1, 1.
StartBar ==
    /\ pc = "Bar"
    /\ max_value' = width * height
    /\ col_num' = 1
    /\ row_num' = 1
    /\ pc' = IF width >= 1 /\ height >= 1 THEN "Pixel" ELSE "Save"
    /\ UNCHANGED <<exc, sheet_format, format_sets, im, imageVars, sheetVars,
                   reported, saves, todo, unitVars>>

\* One pixel of the render loop: getpixel, rgb_to_hex, fill_pixel.
RenderPixelBody ==
    /\ pc = "Pixel"
    /\ LET subpixel_indices == get_subpixel_indices(col_num)
           subpixel_colours == rgb_to_hex(rgb_im[<<col_num - 1, row_num - 1>>])
       IN  /\ ws' = fill_pixel(ws, row_num, subpixel_indices, subpixel_colours)
           /\ writes' = writes + Len(Zip(subpixel_indices, subpixel_colours))
    /\ rendered' = rendered + 1
    /\ pc' = "Update"

\* The sheet format assigned inside the loop, once more per pixel.
RenderPixel_reformat ==
    /\ RenderPixelBody
    /\ sheet_format' = SheetFormatProperties("0.1", "2.5")
    /\ format_sets' = format_sets + 1
    /\ UNCHANGED <<exc, im, imageVars, loopVars, reported, saves, todo, unitVars>>

RenderPixel ==
    /\ RenderPixelBody
    /\ UNCHANGED <<exc, sheet_format, format_sets, im, imageVars, loopVars,
                   reported, saves, todo, unitVars>>

\* The column number used where enumerate's 0-based i belongs.
Iteration_from_col(i, row) == col_num * height + row

\* iteration = i * height + row_num
Iteration(i, row) == i * height + row

\* progress_bar.update(iteration), then the next row, column, or the end of
\* both loops.
UpdateProgress ==
    /\ pc = "Update"
    /\ reported' = Append(reported, Iteration(col_num - 1, row_num))
    /\ IF row_num < height
       THEN /\ row_num' = row_num + 1
            /\ UNCHANGED col_num
            /\ pc' = "Pixel"
       ELSE IF col_num < width
       THEN /\ col_num' = col_num + 1
            /\ row_num' = 1
            /\ pc' = "Pixel"
       ELSE /\ UNCHANGED <<col_num, row_num>>
            /\ pc' = "Save"
    /\ UNCHANGED <<exc, sheet_format, format_sets, im, imageVars, max_value,
                   sheetVars, saves, todo, unitVars>>

\* A library call of the render loop raises; the exception leaves main.
RenderFail ==
    /\ pc \in {"Bar", "Pixel", "Update"}
    /\ exc' = "RenderError"
    /\ pc' = "Failed"
    /\ UNCHANGED <<sheet_format, format_sets, im, imageVars, loopVars,
                   sheetVars, reported, saves, todo, unitVars>>

\* wb.save(destination_filepath) returns.
SaveOk ==
    /\ pc = "Save"
    /\ saves' = saves + 1
    /\ pc' = "Done"
    /\ UNCHANGED <<exc, sheet_format, format_sets, im, imageVars, loopVars,
                   sheetVars, reported, todo, unitVars>>

\* A failed save tried again instead of leaving main.
SaveFail_retry ==
    /\ pc = "Save"
    /\ saves < 3
    /\ saves' = saves + 1
    /\ pc' = "Save"
    /\ UNCHANGED <<exc, sheet_format, format_sets, im, imageVars, loopVars,
                   sheetVars, reported, todo, unitVars>>

\* wb.save raises; the exception leaves main.
SaveFail ==
    /\ pc = "Save"
    /\ saves' = saves + 1
    /\ exc' = "SaveError"
    /\ pc' = "Failed"
    /\ UNCHANGED <<sheet_format, format_sets, im, imageVars, loopVars,
                   sheetVars, reported, todo, unitVars>>

Next ==
    \/ Start
    \/ OpenOk
    \/ OpenFail
    \/ ConvertOk
    \/ ConvertFail
    \/ ExitWith
    \/ StartBar
    \/ RenderPixel
    \/ UpdateProgress
    \/ RenderFail
    \/ SaveOk
    \/ SaveFail

Spec == Init /\ [][Next]_vars

\* The program's phase at a position of main.
Phase ==
    CASE pc = "Idle" -> "Idle"
      [] pc \in {"Open", "Convert", "Exit"} -> "Loading"
      [] pc \in {"Bar", "Pixel", "Update"} -> "Rendering"
      [] pc = "Save" -> "Saving"
      [] pc = "Done" -> "Done"
      [] pc = "Failed" -> "Failed"


\* ------------------------------------------------------------- UnitSpec
\* rgb_to_hex and get_subpixel_indices applied to inputs drawn at the start.
UnitInit ==
    /\ pc = "Idle"
    /\ exc = "none"
    /\ sheet_format = SheetFormatProperties("None", "15")
    /\ format_sets = 0
    /\ im = "none"
    /\ width = 0
    /\ height = 0
    /\ rgb_im = NoImage
    /\ max_value = 0
    /\ col_num = 0
    /\ row_num = 0
    /\ ws = EmptySheet
    /\ writes = 0
    /\ rendered = 0
    /\ reported = <<>>
    /\ saves = 0
    /\ todo = {}
    /\ args \in [rgb : ChannelSamples \X ChannelSamples \X ChannelSamples,
                 col_num : 1..MaxColNum]
    /\ ret = NoRet

CallRgbToHex ==
    /\ ret' = [ret EXCEPT !.hex = rgb_to_hex(args.rgb)]
    /\ UNCHANGED <<pc, exc, sheet_format, format_sets, im, imageVars, loopVars,
                   sheetVars, reported, saves, todo, args>>

CallGetSubpixelIndices ==
    /\ ret' = [ret EXCEPT !.idx = get_subpixel_indices(args.col_num)]
    /\ UNCHANGED <<pc, exc, sheet_format, format_sets, im, imageVars, loopVars,
                   sheetVars, reported, saves, todo, args>>

UnitNext ==
    \/ CallRgbToHex
    \/ CallGetSubpixelIndices

UnitSpec == UnitInit /\ [][UnitNext]_vars

\* ------------------------------------------------------------- PermSpec
\* The render loop of main as a fold: columns ascending, rows ascending
\* within a column, from pixel (c, r) on.
RECURSIVE RenderFrom(_, _, _)
RenderFrom(sheet, c, r) ==
    IF c > width THEN sheet
    ELSE IF r > height THEN RenderFrom(sheet, c + 1, 1)
    ELSE RenderFrom(fill_pixel(sheet, r, get_subpixel_indices(c),
                               rgb_to_hex(rgb_im[<<c - 1, r - 1>>])),
                    c, r + 1)

\* The worksheet main's loop order produces for the image loaded.
MainFills == RenderFrom(EmptySheet, 1, 1)

\* The orders in which n zipped pairs can be visited.
Orders(n) == {o \in [1..n -> 1..n] : \A i, j \in 1..n : i # j => o[i] # o[j]}

\* The state main is in when the render loop starts, for any image.
PermInit ==
    /\ pc = "Pixel"
    /\ exc = "none"
    /\ sheet_format = SheetFormatProperties("0.1", "2.5")
    /\ format_sets = 1
    /\ im = "closed"
    /\ \E w \in 1..MaxWidth, h \in 1..MaxHeight :
         /\ w * h <= MaxPermPixels
         /\ width = w
         /\ height = h
         /\ rgb_im \in Images(w, h)
         /\ max_value = w * h
         /\ todo = (1..w) \X (1..h)
    /\ col_num = 1
    /\ row_num = 1
    /\ ws = EmptySheet
    /\ writes = 0
    /\ rendered = 0
    /\ reported = <<>>
    /\ saves = 0
    /\ args = NoArgs
    /\ ret = NoRet

\* The body of the render loop for any pixel not yet rendered, its three
\* fills set in any order.
RenderAny ==
    /\ pc = "Pixel"
    /\ \E px \in todo :
         LET subpixel_indices == get_subpixel_indices(px[1])
             subpixel_colours == rgb_to_hex(rgb_im[<<px[1] - 1, px[2] - 1>>])
             n == Len(Zip(subpixel_indices, subpixel_colours))
         IN  /\ \E order \in Orders(n) :
                  ws' = fill_pixel_ordered(ws, px[2], subpixel_indices,
                                           subpixel_colours, order)
             /\ writes' = writes + n
             /\ col_num' = px[1]
             /\ row_num' = px[2]
             /\ todo' = todo \ {px}
    /\ rendered' = rendered + 1
    /\ pc' = IF todo' = {} THEN "Save" ELSE "Pixel"
    /\ UNCHANGED <<exc, sheet_format, format_sets, im, imageVars, max_value,
                   reported, saves, args, ret>>

PermNext == RenderAny

PermSpec == PermInit /\ [][PermNext]_vars


\* =============================================================== claims
\* A channel value of 0..255 as two zero-padded upper-case hex digits.
TwoHex(v) == <<HexDigits[(v \div 16) + 1], HexDigits[(v % 16) + 1]>>

Zero2 == <<"0", "0">>

RedEncoding(v) == TwoHex(v) \o Zero2 \o Zero2
GreenEncoding(v) == Zero2 \o TwoHex(v) \o Zero2
BlueEncoding(v) == Zero2 \o Zero2 \o TwoHex(v)

SolidFill(colour) ==
    [start_color |-> colour, end_color |-> colour, fill_type |-> "solid"]

\* The k-th byte-pair (k = 1, 2, 3) of a six-digit colour string.
BytePair(s, k) == SubSeq(s, 2 * k - 1, 2 * k)

NonZeroPairs(s) == {k \in 1..3 : BytePair(s, k) # Zero2}

Terminal == pc \in {"Done", "Failed"}

\* ------------------------------------------------------------------- C1
\* C1: after a run that reaches Done, every source pixel (x, y) with channels
\* (R, G, B) has, at row y+1 and columns 3(x+1)-2, 3(x+1)-1, 3(x+1), solid
\* fills RR0000, 0000BB, 00GG00 in ascending column order, and no other cell
\* has a fill.
C1_DoneSheetLayout ==
    pc = "Done" =>
        /\ \A x \in 0..(width - 1), y \in 0..(height - 1) :
             LET px == rgb_im[<<x, y>>]
                 c  == 3 * (x + 1)
             IN  /\ {<<y + 1, c - 2>>, <<y + 1, c - 1>>, <<y + 1, c>>} \subseteq DOMAIN ws
                 /\ ws[<<y + 1, c - 2>>] = SolidFill(RedEncoding(px[1]))
                 /\ ws[<<y + 1, c - 1>>] = SolidFill(BlueEncoding(px[3]))
                 /\ ws[<<y + 1, c>>] = SolidFill(GreenEncoding(px[2]))
        /\ DOMAIN ws = (1..height) \X (1..(3 * width))

C1_Witness ==
    /\ pc = "Done"
    /\ width = 2
    /\ height = 2
    /\ rgb_im[<<0, 0>>] = <<255, 128, 0>>
    /\ rgb_im[<<1, 1>>] = <<18, 52, 171>>
    /\ ws[<<1, 2>>] = SolidFill(<<"0", "0", "0", "0", "0", "0">>)
    /\ ws[<<2, 6>>] = SolidFill(<<"0", "0", "3", "4", "0", "0">>)

\* ------------------------------------------------------------------- C2
\* C2: for every col_num >= 1 the three indices get_subpixel_indices returns,
\* in the order returned, are base, base+1, base+2 with base = 3*col_num - 2.
C2_IndicesIncreasing ==
    ret.idx # <<>> =>
        LET base == 3 * args.col_num - 2
        IN  ret.idx = <<base, base + 1, base + 2>>

\* ------------------------------------------------------------------- C3
\* C3 as stated: each of the three strings of rgb_to_hex holds exactly one
\* non-zero byte-pair, in the channel's own position, equal to the channel
\* value as two zero-padded hex digits.
C3_ExactlyOneNonZeroPair ==
    ret.hex # <<>> =>
        \A k \in 1..3 :
            /\ Len(ret.hex[k]) = 6
            /\ NonZeroPairs(ret.hex[k]) = {k}
            /\ BytePair(ret.hex[k], k) = TwoHex(args.rgb[k])

\* C3 amended: each of the three strings of rgb_to_hex is six digits long,
\* its byte-pair in the channel's own position equals the channel value as
\* two zero-padded upper-case hex digits and its other two byte-pairs are 00;
\* so it has exactly one non-zero byte-pair when the channel value is not 0
\* and none when it is 0.
C3_ChannelIsolation ==
    ret.hex # <<>> =>
        \A k \in 1..3 :
            /\ Len(ret.hex[k]) = 6
            /\ BytePair(ret.hex[k], k) = TwoHex(args.rgb[k])
            /\ \A j \in (1..3) \ {k} : BytePair(ret.hex[k], j) = Zero2
            /\ NonZeroPairs(ret.hex[k]) = IF args.rgb[k] = 0 THEN {} ELSE {k}

C3_Witness ==
    /\ args.rgb = <<9, 0, 255>>
    /\ ret.hex = << <<"0", "9", "0", "0", "0", "0">>,
                    <<"0", "0", "0", "0", "0", "0">>,
                    <<"0", "0", "0", "0", "F", "F">> >>

\* ------------------------------------------------------------------- C4
IndexSet(c) == {get_subpixel_indices(c)[i] : i \in 1..3}

\* C4: no cell's fill is set twice: the column index sets of distinct col_num
\* values are disjoint, the number of filled cells always equals the number
\* of fills set and 3 times the number of pixels rendered so far, and once
\* rendering has finished it is 3*width*height.
C4_NoCellFilledTwice ==
    /\ \A c1, c2 \in 1..MaxColNum : c1 # c2 => IndexSet(c1) \cap IndexSet(c2) = {}
    /\ \A c \in 1..MaxColNum : Cardinality(IndexSet(c)) = 3
    /\ Cardinality(DOMAIN ws) = writes
    /\ Cardinality(DOMAIN ws) = 3 * rendered
    /\ pc \in {"Save", "Done"} => Cardinality(DOMAIN ws) = 3 * width * height

C4_Witness ==
    /\ pc = "Done"
    /\ width = 2
    /\ height = 1
    /\ Cardinality(DOMAIN ws) = 6
    /\ writes = 6

\* ------------------------------------------------------------------- C5
\* C5: when loading the image fails the run is in Failed with zero writes:
\* no cell fill set, the render loop not started, save never attempted.
C5_LoadFailureWritesNothing ==
    exc = "LoadError" =>
        /\ pc = "Failed"
        /\ ws = EmptySheet
        /\ writes = 0
        /\ rendered = 0
        /\ reported = <<>>
        /\ col_num = 0
        /\ row_num = 0
        /\ saves = 0

C5_Witness ==
    /\ exc = "LoadError"
    /\ im = "none"
    /\ pc = "Failed"

\* ------------------------------------------------------------------- C6
PhaseEdges ==
    { <<"Idle", "Loading">>, <<"Loading", "Rendering">>,
      <<"Rendering", "Saving">>, <<"Saving", "Done">>,
      <<"Loading", "Failed">>, <<"Rendering", "Failed">>,
      <<"Saving", "Failed">> }

PhaseStepOk == Phase' # Phase => <<Phase, Phase'>> \in PhaseEdges

SaveStepOk ==
    saves' # saves =>
        /\ Phase = "Saving"
        /\ saves = 0
        /\ saves' = 1
        /\ rendered = width * height
        /\ Cardinality(DOMAIN ws) = 3 * width * height

NoFillOnceSaving ==
    Phase \in {"Saving", "Done", "Failed"} => (ws' = ws /\ writes' = writes)

\* C6: the phases are passed in the order Idle, Loading, Rendering, Saving,
\* Done, none revisited; Loading, Rendering and Saving may move to Failed;
\* nothing happens after Done or Failed; save is attempted at most once, only
\* in Saving and only after all width*height pixels are rendered, and no cell
\* fill is set once Saving is reached.
C6_PhaseOrder ==
    /\ [][PhaseStepOk]_vars
    /\ [][~Terminal]_vars
    /\ [][SaveStepOk]_vars
    /\ [][NoFillOnceSaving]_vars
    /\ [](saves <= 1)
    /\ [](saves > 0 => Phase \in {"Done", "Failed"})

C6_Witness ==
    /\ pc = "Done"
    /\ saves = 1
    /\ width = 2
    /\ height = 2
    /\ rendered = 4

\* ------------------------------------------------------------------- C7
\* C7: the default column width / row height (0.1, 2.5) is set exactly once,
\* before the render loop, whatever the image size: never in Idle, once in
\* every later state, the terminal states included.
C7_FormatSetOnce ==
    /\ pc = "Idle" => format_sets = 0
    /\ pc # "Idle" =>
        /\ format_sets = 1
        /\ sheet_format = SheetFormatProperties("0.1", "2.5")

C7_Witness ==
    /\ pc = "Done"
    /\ width = 2
    /\ height = 2
    /\ rendered = 4
    /\ format_sets = 1

\* ------------------------------------------------------------------- C8
\* C8: the image handle is closed wherever a cell fill is set or save is
\* attempted, and in every terminal state of a run that opened it, a run
\* whose RGB conversion failed included.
C8_HandleReleased ==
    /\ pc \in {"Bar", "Pixel", "Update", "Save"} => im = "closed"
    /\ (writes > 0 \/ saves > 0) => im = "closed"
    /\ (Terminal /\ im # "none") => im = "closed"

C8_Witness ==
    /\ pc = "Failed"
    /\ exc = "LoadError"
    /\ im = "closed"

\* ------------------------------------------------------------------- C9
\* C9: rendering the pixels in any order, each pixel's three fills in any
\* order, ends with the worksheet that main's column-ascending,
\* row-ascending order produces.
C9_OrderIrrelevant ==
    todo = {} => ws = MainFills

C9_Witness ==
    /\ todo = {}
    /\ pc = "Save"
    /\ width = 2
    /\ height = 2
    /\ <<col_num, row_num>> = <<1, 1>>
    /\ rgb_im[<<0, 0>>] # rgb_im[<<1, 0>>]

\* ------------------------------------------------------------------ C10
\* C10: the values passed to progress_bar.update are 1, 2, ..., in that
\* order, each the number of pixels rendered so far, none above max_value =
\* width*height, and after the loop they end at max_value.
C10_ProgressCountsPixels ==
    /\ \A i \in 1..Len(reported) : reported[i] = i /\ reported[i] <= max_value
    /\ pc # "Failed" => Len(reported) = IF pc = "Update" THEN rendered - 1 ELSE rendered
    /\ Len(reported) <= rendered
    /\ rendered <= Len(reported) + 1
    /\ pc \in {"Pixel", "Update", "Save", "Done"} => max_value = width * height
    /\ pc \in {"Save", "Done"} =>
        /\ Len(reported) = width * height
        /\ reported[Len(reported)] = max_value

C10_Witness ==
    /\ pc = "Done"
    /\ width = 2
    /\ height = 2
    /\ reported = <<1, 2, 3, 4>>

====
